---- MODULE Spec2Model ----
(***************************************************************************)
(* Model of scikits/odes/dae.py: the lazy registry of DAE integrators      *)
(* (find_dae_integrator, DaeBase.integrator_classes, dae.LOADED) and the   *)
(* dae facade that forwards set_options / solve / init_step / step to the  *)
(* integrator instance it constructed.                                     *)
(*                                                                         *)
(* Strings are sequences of one-character strings, so that re.match can    *)
(* be computed character by character.                                     *)
(***************************************************************************)
EXTENDS Integers, Sequences, FiniteSets, TLC

(* ------------------------------ bounds -------------------------------- *)

\* number of dae objects the callers allocate (dae(...) calls)
MaxFacades == 2
\* total number of calls made in one behaviour
MaxCalls == 3
\* number of threads that call find_dae_integrator at the same time
NThreads == 2

(* ------------------------- names and classes -------------------------- *)

Backends == {"ida", "ddaspk", "lsodi"}

\* outcome of executing "from .<module> import <class>" in this process
Outcomes == {"ok", "ImportError", "ValueError"}

\* cl.__name__ of the class each backend module defines
ClassName(b) ==
  CASE b = "ida"    -> <<"I", "D", "A">>
    [] b = "ddaspk" -> <<"d", "d", "a", "s", "p", "k">>
    [] b = "lsodi"  -> <<"l", "s", "o", "d", "i">>

\* the names a caller passes as integrator_name
Names ==
  { <<"i", "d", "a">>, <<"I", "D", "A">>, <<"i", "d">>, <<>>,
    <<"i", ".", "a">>, <<"(">>, <<"n", "o", "n", "e">>,
    <<"d", "d", "a", "s", "p", "k">>, <<"l", "s", "o", "d", "i">>,
    <<"s", "o", "l", "v", "e">>, <<"n", "a", "m", "e">>,
    <<"s", "u", "n", "d", "i", "a", "l", "s">> }

\* the attributes every integrator class has: the DaeBase interface
ContractAttrs ==
  { <<"s", "e", "t", "_", "o", "p", "t", "i", "o", "n", "s">>,
    <<"s", "o", "l", "v", "e">>,
    <<"i", "n", "i", "t", "_", "s", "t", "e", "p">>,
    <<"s", "t", "e", "p">> }

\* re.I: case folding of one character
Fold(c) ==
  CASE c = "I" -> "i"
    [] c = "D" -> "d"
    [] c = "A" -> "a"
    [] OTHER   -> c

\* case-insensitive equality of two whole strings
FoldEq(a, b) ==
  /\ Len(a) = Len(b)
  /\ \A i \in 1..Len(a) : Fold(a[i]) = Fold(b[i])

(* ------------------------------ re.match ------------------------------ *)

\* re.compile(pattern) raises re.error for an unbalanced parenthesis
re_valid(pattern) == \A i \in 1..Len(pattern) : pattern[i] # "("

\* re.match(pattern, string, re.I) for patterns of literals and '.':
\* the pattern is anchored at the start of the string only
re_match(pattern, string) ==
  /\ Len(pattern) <= Len(string)
  /\ \A i \in 1..Len(pattern) :
       \/ pattern[i] = "."
       \/ Fold(pattern[i]) = Fold(string[i])

(* ------------------------------- state -------------------------------- *)

VARIABLES
  env,                 \* env[b]: what importing backend b's module does
  idaNamed,            \* whether the IDA class has a `name` attribute
  LOADED,              \* dae.LOADED
  integrator_classes,  \* DaeBase.integrator_classes
  imported,            \* backend modules in sys.modules
  probes,              \* probes[b]: how often b's import statement ran
  facades,             \* the dae objects allocated so far
  instances,           \* the integrator instances constructed so far
  calls,               \* number of calls made
  last,                \* the last call: its arguments and its outcome
  requests,            \* number of find_dae_integrator calls begun
  threads              \* where each thread is in find_dae_integrator

vars == << env, idaNamed, LOADED, integrator_classes, imported, probes,
           facades, instances, calls, last, requests, threads >>

registryVars == << LOADED, integrator_classes, imported, probes >>

(* -------------------------- call outcomes ----------------------------- *)

\* the argument of a message that was formatted without the requested name
NoArg == << "%" >>

\* a value a call returns; elems are its positional entries
Value(shape, elems) == [shape |-> shape, elems |-> elems]

NoValue == Value("none", << >>)

\* a normal return
Return(val) ==
  [kind |-> "return", val |-> val, exc |-> "none", origin |-> "none",
   msgarg |-> NoArg]

\* an exception of class exc raised at origin, its message formatted with
\* msgarg
Raise(exc, origin, msgarg) ==
  [kind |-> "raise", val |-> NoValue, exc |-> exc, origin |-> origin,
   msgarg |-> msgarg]

\* str(name) occurs in the message of exception e
MsgContains(e, name) == e.msgarg = name \/ Len(name) = 0

(* --------------------- discovery of the integrators ------------------- *)

\* the registry part of the state, as a value the operators transform
Registry ==
  [LOADED |-> LOADED, classes |-> integrator_classes,
   imported |-> imported, probes |-> probes]

\* what executing a backend module's body the first time does to the
\* registry: ddaspk and lsodi append their class themselves, IDA is
\* appended by find_dae_integrator
module_registers(classes, b) ==
  IF b \in {"ddaspk", "lsodi"} THEN Append(classes, b) ELSE classes

\* the import statement has run once more: a module already in
\* sys.modules is not executed again; a module whose import raised is not
\* kept in sys.modules
import_counted(R, b) ==
  IF b \in R.imported
    THEN [R |-> R, exc |-> "none"]
    ELSE IF env[b] = "ok"
      THEN [R |-> [R EXCEPT !.imported = @ \cup {b},
                            !.classes = module_registers(@, b)],
            exc |-> "none"]
      ELSE [R |-> R, exc |-> env[b]]

\* "from .<module> import <class>"
import_module(R, b) == import_counted([R EXCEPT !.probes[b] = @ + 1], b)

\* the except clauses of the three try blocks
ida_except == {"ValueError", "ImportError"}

ddaspk_except == {"ImportError"}

lsodi_except == {"ImportError"}

\* a try block around import result r: an exception of one of the caught
\* classes is printed and the function goes on; any other leaves it
try_except(r, caught) ==
  IF r.exc \in caught THEN [R |-> r.R, exc |-> "none"] ELSE r

\* DaeBase.integrator_classes.append(ida.IDA), inside the try block
append_IDA(r) ==
  IF r.exc = "none"
    THEN [R |-> [r.R EXCEPT !.classes = Append(@, "ida")], exc |-> "none"]
    ELSE r

\* try: from .sundials import ida; integrator_classes.append(ida.IDA)
probe_ida(R) == try_except(append_IDA(import_module(R, "ida")), ida_except)

\* try: from .ddaspkint import ddaspk
probe_ddaspk(R) == try_except(import_module(R, "ddaspk"), ddaspk_except)

\* try: from .lsodiint import lsodi
probe_lsodi(R) == try_except(import_module(R, "lsodi"), lsodi_except)

\* dae.LOADED = True, reached when no exception left the lsodi block
set_LOADED(c) ==
  IF c.exc # "none" THEN c
  ELSE [R |-> [c.R EXCEPT !.LOADED = TRUE], exc |-> "none"]

\* the lsodi block, reached when no exception left the ddaspk block
then_lsodi(b) == IF b.exc # "none" THEN b ELSE set_LOADED(probe_lsodi(b.R))

\* the ddaspk block, reached when no exception left the ida block
then_ddaspk(a) == IF a.exc # "none" THEN a ELSE then_lsodi(probe_ddaspk(a.R))

\* a discovery that does not test the flag
discover_always(R) == then_ddaspk(probe_ida(R))

\* "if not dae.LOADED:" and its body
discover(R) ==
  IF R.LOADED
    THEN [R |-> R, exc |-> "none"]
    ELSE then_ddaspk(probe_ida(R))

(* ------------------------- matching the name -------------------------- *)

\* the `name` attribute of a class (ddaspk.name, lsodi.name, IDA.name)
HasNameAttr(cl) == cl \in {"ddaspk", "lsodi"} \/ idaNamed

\* its value: ddaspk and lsodi carry their own names, IDA, when it has
\* the attribute, the name of the library it wraps
ClassAlias(cl) ==
  CASE cl = "ida"    -> <<"s", "u", "n", "d", "i", "a", "l", "s">>
    [] cl = "ddaspk" -> <<"d", "d", "a", "s", "p", "k">>
    [] cl = "lsodi"  -> <<"l", "s", "o", "d", "i">>

\* hasattr(cl, name): name is the requested integrator name
hasattr(cl, name) ==
  \/ name \in ContractAttrs
  \/ name = <<"n", "a", "m", "e">> /\ HasNameAttr(cl)

\* the outcome of the lookup: the class returned and the branch taken
Found(cl, path) == [kind |-> "return", cls |-> cl, path |-> path,
                    exc |-> "none", origin |-> "none", msgarg |-> NoArg]

LookupRaise(exc, origin, msgarg) ==
  [kind |-> "raise", cls |-> "none", path |-> "none",
   exc |-> exc, origin |-> origin, msgarg |-> msgarg]

\* for cl in DaeBase.integrator_classes: ..., from position i on
RECURSIVE match_loop(_, _, _)
match_loop(classes, i, name) ==
  IF i > Len(classes)
    THEN LookupRaise("ValueError", "find_dae_integrator", name)
  ELSE IF ~re_valid(name)
    THEN LookupRaise("re.error", "re.match", NoArg)
  ELSE IF re_match(name, ClassName(classes[i]))
    THEN Found(classes[i], "canonical")
  ELSE IF hasattr(classes[i], name)
    THEN IF ~HasNameAttr(classes[i])
           THEN LookupRaise("AttributeError", "cl.name", NoArg)
         ELSE IF re_match(name, ClassAlias(classes[i]))
           THEN Found(classes[i], "alias")
         ELSE match_loop(classes, i + 1, name)
  ELSE match_loop(classes, i + 1, name)

\* the list in the opposite order
Reversed(classes) ==
  [i \in 1..Len(classes) |-> classes[Len(classes) + 1 - i]]

\* a lookup that walks the classes from the one registered last
lookup_from_last(d, name) ==
  IF d.exc # "none"
    THEN [R |-> d.R, out |-> LookupRaise(d.exc, "import", NoArg)]
    ELSE [R |-> d.R, out |-> match_loop(Reversed(d.R.classes), 1, name)]

\* a loop that falls through, so that the function returns None
none_if_unmatched(out) ==
  IF out.kind = "raise" /\ out.origin = "find_dae_integrator"
    THEN Found("none", "none") ELSE out

\* a lookup without the final raise
lookup_returning_none(d, name) ==
  IF d.exc # "none"
    THEN [R |-> d.R, out |-> LookupRaise(d.exc, "import", NoArg)]
    ELSE [R |-> d.R,
          out |-> none_if_unmatched(match_loop(d.R.classes, 1, name))]

\* the lookup after discovery outcome d: an exception that left the
\* discovery leaves the function
lookup(d, name) ==
  IF d.exc # "none"
    THEN [R |-> d.R, out |-> LookupRaise(d.exc, "import", NoArg)]
    ELSE [R |-> d.R, out |-> match_loop(d.R.classes, 1, name)]

\* find_dae_integrator(name): the registry after the call and its outcome
find_dae_integrator(R, name) == lookup(discover(R), name)

(* ----------------------- the integrator instances -------------------- *)

\* solve with old_api: flag, t, y, yp, t_err, y_err, yp_err
legacy_solve_result(flag) ==
  IF flag = "success"
    THEN Value("tuple", <<flag, "t", "y", "yp", "None", "None", "None">>)
    ELSE Value("tuple", <<flag, "t", "y", "yp", "t_err", "y_err", "yp_err">>)

\* init_step and step with old_api: flag, t_out
legacy_step_result(flag) == Value("tuple", <<flag, "t_out">>)

\* old_api False: the named tuple flag, values, errors, roots, tstop, message
structured_result(flag) ==
  Value("record", <<flag, "values", "errors", "roots", "tstop", "message">>)

\* integrator(eqsres, **options): the residual function has to be callable
backend_construct(cls, eqsres, old_api) ==
  IF eqsres = "callable"
    THEN [ok |-> TRUE,
          inst |-> [cls |-> cls, phase |-> "Constructed",
                    old_api |-> old_api, released |-> 0],
          out |-> Return(NoValue)]
    ELSE [ok |-> FALSE,
          inst |-> [cls |-> cls, phase |-> "Constructed",
                    old_api |-> old_api, released |-> 0],
          out |-> Raise("ValueError", "integrator.__init__", NoArg)]

\* set_options resets the solver
backend_set_options(inst, args, flag) ==
  [inst |-> [inst EXCEPT !.phase = "Constructed"], out |-> Return(NoValue)]

\* solve runs init_step and the steps inside one call
backend_solve(inst, args, flag) ==
  [inst |-> inst,
   out |-> Return(IF inst.old_api THEN legacy_solve_result(flag)
                                  ELSE structured_result(flag))]

backend_init_step(inst, args, flag) ==
  [inst |-> [inst EXCEPT !.phase = "Stepping"],
   out |-> Return(IF inst.old_api THEN legacy_step_result(flag)
                                  ELSE structured_result(flag))]

\* 'init_step' has to be called before 'step'
backend_step(inst, args, flag) ==
  IF inst.phase # "Stepping"
    THEN [inst |-> inst,
          out |-> Raise("SequenceError", "integrator.step", NoArg)]
    ELSE [inst |-> inst,
          out |-> Return(IF inst.old_api THEN legacy_step_result(flag)
                                         ELSE structured_result(flag))]

call_backend(method, inst, args, flag) ==
  CASE method = "set_options" -> backend_set_options(inst, args, flag)
    [] method = "solve"       -> backend_solve(inst, args, flag)
    [] method = "init_step"   -> backend_init_step(inst, args, flag)
    [] method = "step"        -> backend_step(inst, args, flag)

(* ------------------------------ class dae ----------------------------- *)

\* no call reached an integrator instance
NoCall == [inst |-> 0, method |-> "none", args |-> << >>]

NoOutcome ==
  [kind |-> "none", val |-> NoValue, exc |-> "none", origin |-> "none",
   msgarg |-> NoArg]

\* a dae object before __init__ has set self._integrator
NewFacade == [st |-> "failed", inst |-> 0, dels |-> 0, inited |-> FALSE]

\* the integrator's answer r to a forwarded call, returned as it is
returned(self, method, args, r) ==
  [fwd |-> [inst |-> self.inst, method |-> method, args |-> args],
   bret |-> r.out, ret |-> r.out,
   insts |-> [instances EXCEPT ![self.inst] = r.inst]]

\* return self._integrator.<method>(*args): reading self._integrator
\* raises AttributeError when the attribute is not set; flag is the status
\* the integrator computes in this call
forward(self, method, args, flag) ==
  IF self.st # "bound"
    THEN [fwd |-> NoCall, bret |-> NoOutcome,
          ret |-> Raise("AttributeError", "self._integrator", NoArg),
          insts |-> instances]
    ELSE returned(self, method, args,
                  call_backend(method, instances[self.inst], args, flag))

\* outcome r of a forwarding method, with the returned value dropped
drop_return(r) ==
  IF r.ret.kind = "return" THEN [r EXCEPT !.ret = Return(NoValue)] ELSE r

\* outcome r of a forwarding method, with None answered instead of raising
swallow_raise(r) ==
  IF r.ret.kind = "raise" THEN [r EXCEPT !.ret = Return(NoValue)] ELSE r

dae_set_options(self, options, flag) ==
  forward(self, "set_options", <<options>>, flag)

dae_solve_no_return(self, tspan, y0, yp0, flag) ==
  drop_return(forward(self, "solve", <<tspan, y0, yp0>>, flag))

dae_solve(self, tspan, y0, yp0, flag) ==
  forward(self, "solve", <<tspan, y0, yp0>>, flag)

dae_init_step(self, t0, y0, yp0, y_ic0_retn, yp_ic0_retn, flag) ==
  forward(self, "init_step", <<t0, y0, yp0, y_ic0_retn, yp_ic0_retn>>, flag)

dae_step_swapped(self, t, y_retn, yp_retn, flag) ==
  forward(self, "step", <<t, yp_retn, y_retn>>, flag)

dae_step_swallow(self, t, y_retn, yp_retn, flag) ==
  swallow_raise(forward(self, "step", <<t, y_retn, yp_retn>>, flag))

dae_step(self, t, y_retn, yp_retn, flag) ==
  forward(self, "step", <<t, y_retn, yp_retn>>, flag)

\* __del__: del self._integrator
dae_del(self) ==
  IF self.st # "bound"
    THEN [self |-> [self EXCEPT !.dels = @ + 1],
          ret |-> Raise("AttributeError", "self._integrator", NoArg),
          insts |-> instances]
    ELSE [self |-> [self EXCEPT !.st = "disposed", !.dels = @ + 1],
          ret |-> Return(NoValue),
          insts |-> [instances EXCEPT ![self.inst].released = @ + 1]]

\* the constructor's outcome when it binds no integrator
unbound(f, ret) ==
  [R |-> f.R, self |-> NewFacade, insts |-> instances,
   cls |-> f.out.cls, path |-> f.out.path, ret |-> ret]

\* self._integrator = integrator(eqsres, **options), c the outcome of the
\* integrator's constructor
bind(f, c) ==
  IF c.ok
    THEN [R |-> f.R,
          self |-> [NewFacade EXCEPT !.st = "bound",
                                     !.inst = Len(instances) + 1],
          insts |-> Append(instances, c.inst),
          cls |-> f.out.cls, path |-> f.out.path,
          ret |-> Return(Value("dae", << >>))]
    ELSE unbound(f, c.out)

\* the body of dae.__init__ after integrator = find_dae_integrator(...)
init_with(f, integrator_name, eqsres, old_api) ==
  IF f.out.kind = "raise"
    THEN unbound(f, Raise(f.out.exc, f.out.origin, f.out.msgarg))
  ELSE IF f.out.cls = "none"
    THEN unbound(f, Raise("ValueError", "dae.__init__", integrator_name))
  ELSE bind(f, backend_construct(f.out.cls, eqsres, old_api))

\* dae.__init__(integrator_name, eqsres, **options) on a new object
dae_init(R, integrator_name, eqsres, old_api) ==
  init_with(find_dae_integrator(R, integrator_name), integrator_name,
            eqsres, old_api)

(* ------------------------------ actions ------------------------------- *)

Flags == {"success", "error"}

Residuals == {"callable", "not_callable"}

YBuffers == {"None", "bufA"}

YpBuffers == {"None", "bufB"}

\* the record of a call: what the caller passed, what reached the
\* integrator, what it answered and what the caller got
Call(op, f, name, args, fwd, bret, ret, cls, path, ran) ==
  [op |-> op, f |-> f, name |-> name, args |-> args, fwd |-> fwd,
   bret |-> bret, ret |-> ret, cls |-> cls, path |-> path, ran |-> ran]

NoLast ==
  Call("none", 0, NoArg, << >>, NoCall, NoOutcome, NoOutcome, "none",
       "none", FALSE)

Threads == 1..NThreads

\* a thread that is not inside find_dae_integrator
Idle == [pc |-> "idle", name |-> NoArg, exc |-> "none", cls |-> "none"]

Init ==
  /\ env \in [Backends -> Outcomes]
  /\ idaNamed \in BOOLEAN
  /\ LOADED = FALSE
  /\ integrator_classes = << >>
  /\ imported = {}
  /\ probes = [b \in Backends |-> 0]
  /\ facades = << >>
  /\ instances = << >>
  /\ calls = 0
  /\ last = NoLast
  /\ requests = 0
  /\ threads = [t \in Threads |-> Idle]

SetRegistry(R) ==
  /\ LOADED' = R.LOADED
  /\ integrator_classes' = R.classes
  /\ imported' = R.imported
  /\ probes' = R.probes

\* the state after a constructor call with outcome r
Created(r, name, eqsres) ==
  /\ SetRegistry(r.R)
  /\ facades' = Append(facades, r.self)
  /\ instances' = r.insts
  /\ last' = Call("create", Len(facades) + 1, name, <<eqsres>>,
                  NoCall, NoOutcome, r.ret, r.cls, r.path, ~LOADED)

\* dae(integrator_name, eqsres, old_api=...)
Create(name, eqsres, old_api) ==
  /\ calls < MaxCalls
  /\ Len(facades) < MaxFacades
  /\ Created(dae_init(Registry, name, eqsres, old_api), name, eqsres)
  /\ calls' = calls + 1
  /\ requests' = requests + 1
  /\ UNCHANGED << env, idaNamed, threads >>

\* the state after a direct lookup with outcome r
Resolved(r, name) ==
  /\ SetRegistry(r.R)
  /\ last' = Call("resolve", 0, name, << >>, NoCall, NoOutcome,
                  IF r.out.kind = "raise"
                    THEN Raise(r.out.exc, r.out.origin, r.out.msgarg)
                    ELSE Return(Value("class", << >>)),
                  r.out.cls, r.out.path, ~LOADED)

\* find_dae_integrator(name) called directly
Resolve(name) ==
  /\ calls < MaxCalls
  /\ Resolved(find_dae_integrator(Registry, name), name)
  /\ calls' = calls + 1
  /\ requests' = requests + 1
  /\ UNCHANGED << env, idaNamed, facades, instances, threads >>

\* the callers hold the objects whose constructor returned
Held(f) == f \in 1..Len(facades) /\ facades[f].st \in {"bound", "disposed"}

Forwarded(f, op, args, r) ==
  /\ instances' = r.insts
  /\ last' = Call(op, f, NoArg, args, r.fwd, r.bret, r.ret, "none", "none",
                  FALSE)
  /\ calls' = calls + 1
  /\ UNCHANGED << env, idaNamed, registryVars, requests, threads >>

SetOptions(f) ==
  /\ calls < MaxCalls
  /\ Held(f)
  /\ Forwarded(f, "set_options", <<"options">>,
               dae_set_options(facades[f], "options", "success"))
  /\ UNCHANGED facades

Solve(f, flag) ==
  /\ calls < MaxCalls
  /\ Held(f)
  /\ Forwarded(f, "solve", <<"tspan", "y0", "yp0">>,
               dae_solve(facades[f], "tspan", "y0", "yp0", flag))
  /\ UNCHANGED facades

InitStep(f, y_ic0_retn, yp_ic0_retn, flag) ==
  /\ calls < MaxCalls
  /\ Held(f)
  /\ Forwarded(f, "init_step", <<"t0", "y0", "yp0", y_ic0_retn, yp_ic0_retn>>,
               dae_init_step(facades[f], "t0", "y0", "yp0", y_ic0_retn,
                             yp_ic0_retn, flag))
  /\ facades' = [facades EXCEPT ![f].inited = TRUE]

Step(f, y_retn, yp_retn, flag) ==
  /\ calls < MaxCalls
  /\ Held(f)
  /\ Forwarded(f, "step", <<"t", y_retn, yp_retn>>,
               dae_step(facades[f], "t", y_retn, yp_retn, flag))
  /\ UNCHANGED facades

\* the state after a __del__ call on object f with outcome r
Deleted(f, r) ==
  /\ facades' = [facades EXCEPT ![f] = r.self]
  /\ instances' = r.insts
  /\ last' = Call("del", f, NoArg, << >>, NoCall, NoOutcome, r.ret,
                  "none", "none", FALSE)

\* __del__, called by the holder of the object or, once, by the garbage
\* collector (the only caller for an object whose constructor raised)
Del(f) ==
  /\ calls < MaxCalls
  /\ f \in 1..Len(facades)
  /\ Held(f) \/ facades[f].dels = 0
  /\ Deleted(f, dae_del(facades[f]))
  /\ calls' = calls + 1
  /\ UNCHANGED << env, idaNamed, registryVars, requests, threads >>

Next ==
  \/ \E name \in Names, eqsres \in Residuals, old_api \in BOOLEAN :
       Create(name, eqsres, old_api)
  \/ \E name \in Names : Resolve(name)
  \/ \E f \in 1..MaxFacades : SetOptions(f)
  \/ \E f \in 1..MaxFacades, flag \in Flags : Solve(f, flag)
  \/ \E f \in 1..MaxFacades, y \in YBuffers, yp \in YpBuffers, flag \in Flags :
       InitStep(f, y, yp, flag)
  \/ \E f \in 1..MaxFacades, y \in YBuffers, yp \in YpBuffers, flag \in Flags :
       Step(f, y, yp, flag)
  \/ \E f \in 1..MaxFacades : Del(f)

Spec == Init /\ [][Next]_vars

(* ------------- find_dae_integrator called from several threads -------- *)

\* Each thread calls find_dae_integrator(name) once; the interpreter may
\* switch threads between the flag test, the three try blocks, the
\* assignment of the flag and the matching loop.

ThreadFrame == UNCHANGED << env, idaNamed, facades, instances, calls, last >>

\* thread t enters find_dae_integrator(name)
T_Begin(t, name) ==
  /\ threads[t].pc = "idle"
  /\ threads' = [threads EXCEPT ![t].pc = "check", ![t].name = name]
  /\ requests' = requests + 1
  /\ UNCHANGED registryVars
  /\ ThreadFrame

\* if not dae.LOADED:
T_Check(t) ==
  /\ threads[t].pc = "check"
  /\ threads' = [threads EXCEPT ![t].pc = IF LOADED THEN "match" ELSE "ida"]
  /\ UNCHANGED << registryVars, requests >>
  /\ ThreadFrame

\* thread t has run a try block with result r and goes on at next, or
\* leaves the function with the exception the block did not catch
Probed(t, r, next) ==
  /\ SetRegistry(r.R)
  /\ threads' = [threads EXCEPT
                   ![t].pc = IF r.exc # "none" THEN "raised" ELSE next,
                   ![t].exc = r.exc]
  /\ UNCHANGED requests
  /\ ThreadFrame

T_ProbeIda(t) ==
  /\ threads[t].pc = "ida"
  /\ Probed(t, probe_ida(Registry), "ddaspk")

T_ProbeDdaspk(t) ==
  /\ threads[t].pc = "ddaspk"
  /\ Probed(t, probe_ddaspk(Registry), "lsodi")

T_ProbeLsodi(t) ==
  /\ threads[t].pc = "lsodi"
  /\ Probed(t, probe_lsodi(Registry), "setloaded")

\* dae.LOADED = True
T_SetLoaded(t) ==
  /\ threads[t].pc = "setloaded"
  /\ LOADED' = TRUE
  /\ threads' = [threads EXCEPT ![t].pc = "match"]
  /\ UNCHANGED << integrator_classes, imported, probes, requests >>
  /\ ThreadFrame

\* thread t leaves the matching loop with outcome out
Matched(t, out) ==
  threads' = [threads EXCEPT
                ![t].pc = IF out.kind = "raise" THEN "raised" ELSE "returned",
                ![t].exc = out.exc,
                ![t].cls = out.cls]

\* for cl in DaeBase.integrator_classes: ...
T_Match(t) ==
  /\ threads[t].pc = "match"
  /\ Matched(t, match_loop(integrator_classes, 1, threads[t].name))
  /\ UNCHANGED << registryVars, requests >>
  /\ ThreadFrame

ThreadNext ==
  \/ \E t \in Threads, name \in Names : T_Begin(t, name)
  \/ \E t \in Threads : T_Check(t)
  \/ \E t \in Threads : T_ProbeIda(t)
  \/ \E t \in Threads : T_ProbeDdaspk(t)
  \/ \E t \in Threads : T_ProbeLsodi(t)
  \/ \E t \in Threads : T_SetLoaded(t)
  \/ \E t \in Threads : T_Match(t)

SpecThreads == Init /\ [][ThreadNext]_vars

(* ------------------------------ the claims ---------------------------- *)

\* the registered classes
Registered == { integrator_classes[i] : i \in 1..Len(integrator_classes) }

\* name is, ignoring case, the canonical identifier of cl or its alias
NameOf(name, cl) ==
  \/ FoldEq(name, ClassName(cl))
  \/ HasNameAttr(cl) /\ FoldEq(name, ClassAlias(cl))

\* the error find_dae_integrator raises for a name it did not find
IsNameNotFound(e, name) ==
  /\ e.kind = "raise"
  /\ e.exc = "ValueError"
  /\ e.origin \in {"find_dae_integrator", "dae.__init__"}
  /\ MsgContains(e, name)

\* C1: a dae(name, ...) whose name is the name of no registered class
\* fails with the ValueError that carries the name, and binds no integrator.
C1_UnmatchedNameNotFound ==
  ( /\ last.op = "create"
    /\ \A cl \in Registered : ~NameOf(last.name, cl) )
  => /\ IsNameNotFound(last.ret, last.name)
     /\ facades[last.f].st = "failed"

\* C2: a dae(name, ...) with a callable residual whose name is, ignoring
\* case, the canonical identifier of a registered class returns an object
\* bound to an instance of that class.
C2_CanonicalNameCreates ==
  ( /\ last.op = "create"
    /\ last.args = <<"callable">>
    /\ \E cl \in Registered : FoldEq(last.name, ClassName(cl)) )
  => /\ last.ret.kind = "return"
     /\ facades[last.f].st = "bound"
     /\ FoldEq(last.name, ClassName(instances[facades[last.f].inst].cls))

\* C3: a class found through its canonical identifier has an identifier
\* that equals the whole requested name, ignoring case.
C3_CanonicalMatchIsExact ==
  ( /\ last.op \in {"create", "resolve"}
    /\ last.path = "canonical" )
  => FoldEq(last.name, ClassName(last.cls))

\* C4: no backend's import statement runs more than once in a process.
C4_ProbedAtMostOnce == \A b \in Backends : probes[b] <= 1

\* C5: a call that runs discovery while some backend fails to load never
\* raises that load failure, and probes every backend.
C5_LoadFailureCaught ==
  ( /\ last.op \in {"create", "resolve"}
    /\ last.ran
    /\ \E b \in Backends : env[b] # "ok" )
  => /\ last.ret.origin # "import"
     /\ \A b \in Backends : probes[b] >= 1

C7_SecondDelIsNoOp ==
  /\ \A i \in 1..Len(instances) : instances[i].released <= 1
  /\ ( /\ last.op = "del"
       /\ facades[last.f].dels >= 2 )
     => last.ret.kind = "return"

\* C8: no two entries of integrator_classes have names that are equal
\* ignoring case.
C8_NoCollidingNames ==
  \A i, j \in 1..Len(integrator_classes) :
    i # j => ~FoldEq(ClassName(integrator_classes[i]),
                     ClassName(integrator_classes[j]))

\* the last call returned a result of an integrator configured with old_api
LegacyResult(ops) ==
  /\ last.op \in ops
  /\ last.ret.kind = "return"
  /\ last.fwd.inst # 0
  /\ instances[last.fwd.inst].old_api

SevenTuple(val) ==
  /\ val.shape = "tuple"
  /\ Len(val.elems) = 7
  /\ val.elems[1] = "success" =>
       /\ val.elems[5] = "None"
       /\ val.elems[6] = "None"
       /\ val.elems[7] = "None"

ForwardingOps == {"set_options", "solve", "init_step", "step"}

C10_Step ==
  /\ \A f \in 1..Len(facades) :
       facades[f].st = "bound" /\ facades'[f].st = "bound"
         => facades'[f].inst = facades[f].inst
  /\ ( /\ last'.op \in ForwardingOps
       /\ facades[last'.f].st = "bound" )
     => /\ facades'[last'.f] = [facades[last'.f] EXCEPT
                                  !.inited = facades'[last'.f].inited]
        /\ last'.fwd = [inst |-> facades[last'.f].inst,
                        method |-> last'.op, args |-> last'.args]
        /\ last'.ret = last'.bret

\* C10: an object keeps the integrator instance its constructor bound, and
\* each set_options, solve, init_step and step call reaches that instance
\* with the caller's arguments in the caller's order and returns what the
\* instance returned.
C10_ForwardedUnchanged == [][C10_Step]_vars

C10_Witness ==
  /\ last.op = "step"
  /\ last.ret.kind = "return"
  /\ last.args = <<"t", "bufA", "bufB">>
  /\ last.fwd.args = last.args

\* C11: a lookup, after discovery has completed, of a name that equals
\* ignoring case the `name` attribute of a registered class returns a class
\* with that `name`.
C11_AliasResolves ==
  ( /\ last.op \in {"create", "resolve"}
    /\ LOADED
    /\ \E cl \in Registered :
         HasNameAttr(cl) /\ FoldEq(last.name, ClassAlias(cl)) )
  => /\ last.cls # "none"
     /\ HasNameAttr(last.cls)
     /\ FoldEq(last.name, ClassAlias(last.cls))

\* the test of one loop iteration: cl is returned for name
LoopMatches(name, cl) ==
  \/ re_match(name, ClassName(cl))
  \/ hasattr(cl, name) /\ HasNameAttr(cl) /\ re_match(name, ClassAlias(cl))

\* position of each backend in the discovery order
DiscoveryRank(b) ==
  CASE b = "ida" -> 1 [] b = "ddaspk" -> 2 [] b = "lsodi" -> 3

\* the exception a lookup ended with, "none" when it returned a class
LookupExc(l) ==
  IF l.ret.origin \in {"import", "find_dae_integrator", "re.match", "cl.name"}
    THEN l.ret.exc ELSE "none"

\* the class the last lookup returned is the first registered one that
\* matches the name
FirstMatchReturned ==
  ( /\ last.op \in {"create", "resolve"}
    /\ last.cls # "none" )
  => \E i \in 1..Len(integrator_classes) :
       /\ integrator_classes[i] = last.cls
       /\ LoopMatches(last.name, integrator_classes[i])
       /\ \A j \in 1..(i - 1) :
            ~LoopMatches(last.name, integrator_classes[j])

\* the classes enter the registry in the order ida, ddaspk, lsodi: an
\* entry behind a later backend's entry repeats an earlier entry
RegisteredInDiscoveryOrder ==
  \A i, j \in 1..Len(integrator_classes) :
    ( /\ i < j
      /\ DiscoveryRank(integrator_classes[i]) >
           DiscoveryRank(integrator_classes[j]) )
    => \E k \in 1..(i - 1) : integrator_classes[k] = integrator_classes[j]

C12_Step ==
  /\ FirstMatchReturned'
  /\ RegisteredInDiscoveryOrder'
  /\ ( /\ last.op \in {"create", "resolve"}
       /\ last'.op \in {"create", "resolve"}
       /\ calls' = calls + 1
       /\ last'.name = last.name )
     => /\ last'.cls = last.cls
        /\ last'.path = last.path
        /\ LookupExc(last') = LookupExc(last)

\* C12: a lookup returns the first registered class that matches the name,
\* the classes are registered in the order ida, ddaspk, lsodi, and a name
\* looked up again (the first call, which runs discovery, and any later
\* call) gives the same class or the same error.
C12_FirstMatchDeterministic == [][C12_Step]_vars

C12_Witness ==
  /\ last.op \in {"create", "resolve"}
  /\ ~last.ran
  /\ last.cls = "ida"
  /\ Cardinality({cl \in Registered : LoopMatches(last.name, cl)}) = 3

\* nothing has been discovered
Undiscovered ==
  /\ LOADED = FALSE
  /\ integrator_classes = << >>
  /\ \A b \in Backends : probes[b] = 0

C13_Step ==
  /\ requests' = 0 => Undiscovered'
  /\ probes' # probes => requests = 0 /\ requests' = 1

\* C13: while no lookup has been requested the flag is false, the registry
\* is empty and no import statement has run; an import statement runs only
\* in the step that is the first lookup request.
C13_LazyDiscovery == [][C13_Step]_vars

\* thread t has passed the flag test and has not yet set the flag
InDiscovery(t) == threads[t].pc \in {"ida", "ddaspk", "lsodi", "setloaded"}

\* C14: no two threads are inside the discovery block at the same time,
\* and no class is in the registry twice.
C14_DiscoveryOnceAcrossThreads ==
  /\ \A t1, t2 \in Threads : t1 # t2 => ~(InDiscovery(t1) /\ InDiscovery(t2))
  /\ Cardinality(Registered) = Len(integrator_classes)

\* C15: once the flag is true, no step changes the registry or its order,
\* and the flag stays true.
C15_RegistryFrozenOnceLoaded ==
  [][LOADED => /\ LOADED'
               /\ integrator_classes' = integrator_classes
               /\ probes' = probes]_vars

C15_Witness ==
  /\ LOADED
  /\ last.op \in {"create", "resolve"}
  /\ ~last.ran
  /\ Len(integrator_classes) > 0
  /\ IsNameNotFound(last.ret, last.name)

\* C16: __del__ returns without raising on every object it runs on.
C16_DelNeverRaises ==
  last.op = "del" =>
    /\ last.ret.kind = "return"
    /\ facades[last.f].st = "disposed"

\* C17: a lookup that does not raise returns a class of the registry, and
\* no error comes from the `integrator is None` branch of dae.__init__.
C17_NeverReturnsNone ==
  last.op \in {"create", "resolve"} =>
    /\ LookupExc(last) = "none" => last.cls \in Registered
    /\ last.cls = "none" => LookupExc(last) # "none"
    /\ last.ret.origin # "dae.__init__"

C17_Witness ==
  /\ last.op = "create"
  /\ Len(integrator_classes) > 0
  /\ last.ret.kind = "raise"
  /\ last.ret.origin = "find_dae_integrator"
  /\ last.ret.msgarg = last.name

====
